---------------------------- MODULE Spec2Model ----------------------------
(***************************************************************************)
(* Workplan validation and radar-chart construction of the position        *)
(* description generator (chart.py, positions/scripts/helper_module.py).   *)
(*                                                                         *)
(* A Python object is a record [ty, n, items]: ty is the name of its exact *)
(* type, n the number it denotes (for a numeric string the number its text *)
(* spells, for a bool 0 or 1), items the insertion-ordered entries of a    *)
(* container, each a record [key, value].                                  *)
(***************************************************************************)
EXTENDS Integers, Sequences, FiniteSets, TLC

(* ------------------------------ bounds --------------------------------- *)

\* number of distinct task labels the inputs are drawn from
NumLabels == 3

\* largest number of entries of a workplan
MaxEntries == 3

\* largest number of elements of a sequence passed where a dict is expected
MaxSeqLen == 1

\* number of callers that run concurrently
NumCallers == 2

\* the longest position title, in characters, of a chart file name
MaxTitleLen == 3

(* ------------------------- program constants --------------------------- *)

\* the total the workplan values must reach
RequiredTotal == 100

\* the margin added to the largest value for the radial axis
AxisMargin == 5

(* ------------------------- state of the caller ------------------------- *)

VARIABLE
    earlier     \* per builder, the chart an earlier call of it gave the caller

(* --------------------------- Python objects ---------------------------- *)

\* the classes a type inherits from, itself included
Mro(ty) ==
    CASE ty = "bool"        -> {"bool", "int", "object"}
      [] ty = "OrderedDict" -> {"OrderedDict", "dict", "object"}
      [] OTHER              -> {ty, "object"}

\* isinstance(obj, cls)
isinstance(obj, cls) == cls \in Mro(obj.ty)

\* type(obj) is cls
type_is(obj, cls) == obj.ty = cls

\* '{}'.format(type(obj))
TypeRepr(obj) == "<class '" \o obj.ty \o "'>"

Scalar(ty, n) == [ty |-> ty, n |-> n, items |-> <<>>]

PyInt(n) == Scalar("int", n)

PyNone == Scalar("NoneType", 0)

\* a variant that walks the entries from the last to the first
Keys_reversed(obj) ==
    [i \in 1..Len(obj.items) |-> obj.items[Len(obj.items) + 1 - i].key]

\* list(workplan.keys())
Keys(obj) == [i \in 1..Len(obj.items) |-> obj.items[i].key]

\* list(workplan.values())
Values(obj) == [i \in 1..Len(obj.items) |-> obj.items[i].value]

\* sum(values): integer addition from 0, left to right
RECURSIVE sum(_)
sum(vals) ==
    IF vals = <<>> THEN 0 ELSE vals[1].n + sum(Tail(vals))

\* max(values); max() of an empty sequence raises ValueError, which the
\* caller tests for before using this
RECURSIVE max(_)
max(vals) ==
    IF Len(vals) = 1 THEN vals[1].n
    ELSE LET m == max(Tail(vals))
         IN  IF vals[1].n >= m THEN vals[1].n ELSE m

(* ------------------------------ outcomes ------------------------------- *)

NoMsg == [text |-> "", args |-> <<>>]

\* no call has been made yet
NoOutcome == [kind |-> "none", exc |-> "", msg |-> NoMsg, value |-> PyNone]

\* return value
Return(value) == [kind |-> "return", exc |-> "", msg |-> NoMsg, value |-> value]

\* raise exc(text.format(args))
Raise(exc, text, args) ==
    [kind |-> "raise", exc |-> exc, msg |-> [text |-> text, args |-> args],
     value |-> PyNone]

PyTrue == Scalar("bool", 1)

\* the truth value an if statement gives an object
Truthy(obj) ==
    CASE obj.ty \in {"bool", "int", "float"} -> obj.n # 0
      [] obj.ty = "NoneType"                 -> FALSE
      [] OTHER                               -> TRUE

(* -------------------------- validate_workplan -------------------------- *)

\* all(type(value) is int for value in workplan.values())
all_type_is_int(vals) == \A i \in 1..Len(vals) : type_is(vals[i], "int")

\* [type(value) for value in workplan.values() if not isinstance(value, int)]
RECURSIVE non_int_types(_)
non_int_types(vals) ==
    IF vals = <<>> THEN <<>>
    ELSE IF ~isinstance(Head(vals), "int")
         THEN <<TypeRepr(Head(vals))>> \o non_int_types(Tail(vals))
         ELSE non_int_types(Tail(vals))

SumMsg == "The workplan parameter values should total 100, instead sums to {}."

TypesMsg == "All workplan values must be integers, instead received type(s): {}."

DictMsg == "The workplan parameter expects a dictionary, but received {}."

\* a variant that falls off the end (returns None) when the sum is 100
validate_workplan_no_return(workplan) ==
    IF isinstance(workplan, "dict")
    THEN IF all_type_is_int(Values(workplan))
         THEN IF sum(Values(workplan)) = RequiredTotal
              THEN Return(PyNone)
              ELSE Raise("ValuesDontSumTo100", SumMsg,
                         <<ToString(sum(Values(workplan)))>>)
         ELSE Raise("ValuesNotTypeInt", TypesMsg,
                    non_int_types(Values(workplan)))
    ELSE Raise("InvalidParameterType", DictMsg, <<TypeRepr(workplan)>>)

\* a variant that checks the sum of the numbers before the types
validate_workplan_sum_first(workplan) ==
    IF isinstance(workplan, "dict")
    THEN IF \A i \in 1..Len(Values(workplan)) :
                Values(workplan)[i].ty \in {"int", "bool", "float"}
            /\ sum(Values(workplan)) # RequiredTotal
         THEN Raise("ValuesDontSumTo100", SumMsg,
                    <<ToString(sum(Values(workplan)))>>)
         ELSE IF all_type_is_int(Values(workplan))
              THEN Return(PyTrue)
              ELSE Raise("ValuesNotTypeInt", TypesMsg,
                         non_int_types(Values(workplan)))
    ELSE Raise("InvalidParameterType", DictMsg, <<TypeRepr(workplan)>>)

\* a variant whose sum message formats the number of values
validate_workplan_msg_len(workplan) ==
    IF isinstance(workplan, "dict")
    THEN IF all_type_is_int(Values(workplan))
         THEN IF sum(Values(workplan)) = RequiredTotal
              THEN Return(PyTrue)
              ELSE Raise("ValuesDontSumTo100", SumMsg,
                         <<ToString(Len(Values(workplan)))>>)
         ELSE Raise("ValuesNotTypeInt", TypesMsg,
                    non_int_types(Values(workplan)))
    ELSE Raise("InvalidParameterType", DictMsg, <<TypeRepr(workplan)>>)

\* a variant that tests isinstance(workplan, (dict, list))
validate_workplan_list_ok(workplan) ==
    IF isinstance(workplan, "dict") \/ isinstance(workplan, "list")
    THEN IF all_type_is_int(Values(workplan))
         THEN IF sum(Values(workplan)) = RequiredTotal
              THEN Return(PyTrue)
              ELSE Raise("ValuesDontSumTo100", SumMsg,
                         <<ToString(sum(Values(workplan)))>>)
         ELSE Raise("ValuesNotTypeInt", TypesMsg,
                    non_int_types(Values(workplan)))
    ELSE Raise("InvalidParameterType", DictMsg, <<TypeRepr(workplan)>>)

\* a variant that returns False when the sum is not 100
validate_workplan_returns_false(workplan) ==
    IF isinstance(workplan, "dict")
    THEN IF all_type_is_int(Values(workplan))
         THEN IF sum(Values(workplan)) = RequiredTotal
              THEN Return(PyTrue)
              ELSE Return(Scalar("bool", 0))
         ELSE Raise("ValuesNotTypeInt", TypesMsg,
                    non_int_types(Values(workplan)))
    ELSE Raise("InvalidParameterType", DictMsg, <<TypeRepr(workplan)>>)

\* a variant that checks the sum only of a workplan that has values
validate_workplan_empty_ok(workplan) ==
    IF isinstance(workplan, "dict")
    THEN IF all_type_is_int(Values(workplan))
         THEN IF Values(workplan) = <<>>
                 \/ sum(Values(workplan)) = RequiredTotal
              THEN Return(PyTrue)
              ELSE Raise("ValuesDontSumTo100", SumMsg,
                         <<ToString(sum(Values(workplan)))>>)
         ELSE Raise("ValuesNotTypeInt", TypesMsg,
                    non_int_types(Values(workplan)))
    ELSE Raise("InvalidParameterType", DictMsg, <<TypeRepr(workplan)>>)

\* chart.py
validate_workplan(workplan) ==
    IF isinstance(workplan, "dict")
    THEN IF all_type_is_int(Values(workplan))
         THEN IF sum(Values(workplan)) = RequiredTotal
              THEN Return(PyTrue)
              ELSE Raise("ValuesDontSumTo100", SumMsg,
                         <<ToString(sum(Values(workplan)))>>)
         ELSE Raise("ValuesNotTypeInt", TypesMsg,
                    non_int_types(Values(workplan)))
    ELSE Raise("InvalidParameterType", DictMsg, <<TypeRepr(workplan)>>)

\* helper_module.py
hm_validate_workplan(workplan) ==
    IF isinstance(workplan, "dict")
    THEN IF all_type_is_int(Values(workplan))
         THEN IF sum(Values(workplan)) = RequiredTotal
              THEN Return(PyTrue)
              ELSE Raise("ValuesDontSumTo100", SumMsg,
                         <<ToString(sum(Values(workplan)))>>)
         ELSE Raise("ValuesNotTypeInt", TypesMsg,
                    non_int_types(Values(workplan)))
    ELSE Raise("InvalidParameterType", DictMsg, <<TypeRepr(workplan)>>)

(* ------------------------- chart construction -------------------------- *)

\* the exception object an except clause binds
ExcObj(ty) == Scalar(ty, 0)

\* go.Scatterpolar(r=..., theta=..., fill=..., fillcolor=..., line=...)
Scatterpolar(r_values, responsibilities) ==
    [type |-> "scatterpolar", r |-> r_values, theta |-> responsibilities,
     fill |-> "toself", fillcolor |-> "#a1d99b",
     line |-> [color |-> "#a1d99b"]]

\* a variant that breaks the title line with a newline character
Layout_newline(title, axis_range) ==
    [title |-> title \o "\nResponsibilities",
     font |-> [color |-> "#a1d99b"],
     polar |-> [radialaxis |-> [visible |-> TRUE, color |-> "black",
                                linecolor |-> "green", range |-> axis_range]],
     showlegend |-> FALSE,
     hovermode |-> "closest"]

\* the layout dictionary
Layout(title, axis_range) ==
    [title |-> title \o "<br>Responsibilities",
     font |-> [color |-> "#a1d99b"],
     polar |-> [radialaxis |-> [visible |-> TRUE, color |-> "black",
                                linecolor |-> "green", range |-> axis_range]],
     showlegend |-> FALSE,
     hovermode |-> "closest"]

\* a variant without the margin
AxisRange_no_margin(r_values) == <<0, max(r_values)>>

\* [0, (max(r_values) + 5)]
AxisRange(r_values) == <<0, max(r_values) + AxisMargin>>

\* a variant whose except clause raises the error instead of returning it
TryConstruct_reraises(title, workplan, figType, fault) ==
    LET r_values == Values(workplan)
        reraised(ty, started, at) ==
            [outcome |-> Raise(ty, "", <<>>), steps |-> started, failed |-> at]
    IN  IF r_values = <<>>
        THEN reraised("ValueError", <<"keys", "values", "axis_range">>,
                      "axis_range")
        ELSE IF \E i \in 1..Len(r_values) : r_values[i].ty = "str"
        THEN reraised("TypeError", <<"keys", "values", "axis_range">>,
                      "axis_range")
        ELSE IF fault = "Scatterpolar"
        THEN reraised("PlotlyError",
                      <<"keys", "values", "axis_range", "Scatterpolar">>,
                      "Scatterpolar")
        ELSE IF fault = "Figure" /\ figType = "Figure"
        THEN reraised("PlotlyError",
                      <<"keys", "values", "axis_range", "Scatterpolar",
                        "layout", "Figure">>,
                      "Figure")
        ELSE [outcome |->
                Return([ty |-> figType,
                        data |-> <<Scatterpolar([i \in 1..Len(r_values) |->
                                                    r_values[i].n],
                                                Keys(workplan))>>,
                        layout |-> Layout(title, AxisRange(r_values))]),
              steps |-> <<"keys", "values", "axis_range", "Scatterpolar",
                          "layout", figType>>,
              failed |-> "none"]

\* the body of the try statement, shared text of both builders; figType is
\* "dict" for the plain {'data', 'layout'} dictionary and "Figure" for
\* go.Figure(data, layout); fault names the plotly call that raises, if any.
\* Gives the outcome and the construction steps that were started.
TryConstruct(title, workplan, figType, fault) ==
    LET responsibilities == Keys(workplan)
        r_values == Values(workplan)
        caught(ty, started, at) ==
            [outcome |-> Return(ExcObj(ty)), steps |-> started, failed |-> at]
    IN  IF r_values = <<>>
        THEN caught("ValueError", <<"keys", "values", "axis_range">>,
                    "axis_range")
        ELSE IF \E i \in 1..Len(r_values) : r_values[i].ty = "str"
        THEN caught("TypeError", <<"keys", "values", "axis_range">>,
                    "axis_range")
        ELSE IF fault = "Scatterpolar"
        THEN caught("PlotlyError",
                    <<"keys", "values", "axis_range", "Scatterpolar">>,
                    "Scatterpolar")
        ELSE IF fault = "Figure" /\ figType = "Figure"
        THEN caught("PlotlyError",
                    <<"keys", "values", "axis_range", "Scatterpolar",
                      "layout", "Figure">>,
                    "Figure")
        ELSE [outcome |->
                Return([ty |-> figType,
                        data |-> <<Scatterpolar([i \in 1..Len(r_values) |->
                                                    r_values[i].n],
                                                responsibilities)>>,
                        layout |-> Layout(title, AxisRange(r_values))]),
              steps |-> <<"keys", "values", "axis_range", "Scatterpolar",
                          "layout", figType>>,
              failed |-> "none"]

\* a variant that calls the validation inside the try statement
position_radarchart_catches(job_title, workplan, fault) ==
    LET v == validate_workplan(workplan)
    IN  IF v.kind = "raise"
        THEN [outcome |-> Return(ExcObj(v.exc)), steps |-> <<>>,
              failed |-> "none"]
        ELSE IF Truthy(v.value)
        THEN TryConstruct(job_title, workplan, "dict", fault)
        ELSE [outcome |-> Return(ExcObj("InvalidParameterType")),
              steps |-> <<>>, failed |-> "none"]

\* a variant that keeps its trace list at module level, so that the traces
\* of earlier calls stay in the list
position_radarchart_accumulates(job_title, workplan, fault) ==
    LET v == validate_workplan(workplan)
        res == TryConstruct(job_title, workplan, "dict", fault)
        kept == earlier["position_radarchart"]
    IN  IF v.kind = "raise"
        THEN [outcome |-> v, steps |-> <<>>, failed |-> "none"]
        ELSE IF res.failed = "none" /\ kept.ty = "dict"
        THEN [res EXCEPT !.outcome.value.data = kept.data \o @]
        ELSE res

\* chart.py
position_radarchart(job_title, workplan, fault) ==
    LET v == validate_workplan(workplan)
    IN  IF v.kind = "raise"
        THEN [outcome |-> v, steps |-> <<>>, failed |-> "none"]
        ELSE IF Truthy(v.value)
        THEN TryConstruct(job_title, workplan, "dict", fault)
        ELSE [outcome |-> Raise("InvalidParameterType", DictMsg,
                                <<TypeRepr(workplan)>>),
              steps |-> <<>>, failed |-> "none"]

\* helper_module.py
create_radarchart(position, fault) ==
    LET jobtitle == position.title
        workplan == position.breakdown
        v == hm_validate_workplan(workplan)
    IN  IF v.kind = "raise"
        THEN [outcome |-> v, steps |-> <<>>, failed |-> "none"]
        ELSE IF Truthy(v.value)
        THEN TryConstruct(jobtitle, workplan, "Figure", fault)
        ELSE [outcome |-> Raise("InvalidParameterType", DictMsg,
                                <<TypeRepr(workplan)>>),
              steps |-> <<>>, failed |-> "none"]

(* ------------------------------- inputs -------------------------------- *)

LabelPool ==
    <<"repair", "inspection", "paperwork", "memo writing",
      "answering phones", "drinking coffee">>

Labels == {LabelPool[i] : i \in 1..NumLabels}

Titles == {"Auto Mechanic II", "Secretary II"}

\* the values a workplan entry may hold: integers, and a bool, a float and a
\* numeric string
ValuePool ==
    {PyInt(-40), PyInt(25), PyInt(35), PyInt(40), PyInt(100),
     Scalar("bool", 1), Scalar("float", 35), Scalar("str", 25)}

\* the key sequences of n distinct labels
KeySeqs(n) ==
    {q \in [1..n -> Labels] : \A i, j \in 1..n : i # j => q[i] # q[j]}

\* the entries that pair the keys k with the values v, in order
MakeEntries(k, v) == [i \in 1..Len(k) |-> [key |-> k[i], value |-> v[i]]]

Container(ty, items) == [ty |-> ty, n |-> 0, items |-> items]

\* workplan is a plain dict of at most MaxEntries entries
IsDictInput(w) ==
    \E n \in 0..MaxEntries : \E k \in KeySeqs(n) : \E v \in [1..n -> ValuePool] :
        w = Container("dict", MakeEntries(k, v))

\* what a caller may pass that is not a plain dict
IsOtherInput(w) ==
    \/ \E ty \in {"OrderedDict", "list", "tuple"} :
         \E n \in 0..MaxSeqLen : \E k \in KeySeqs(n) :
            \E v \in [1..n -> ValuePool] :
                w = Container(ty, MakeEntries(k, v))
    \/ w \in {PyInt(100), Scalar("float", 100), Scalar("str", 100), PyNone}

Faults == {"none", "Scatterpolar", "Figure"}

(* ---------------------------- state machine ---------------------------- *)

VARIABLES
    workplan,   \* the object the caller passes as the workplan
    job_title,  \* the title the caller passes
    fn,         \* the function the caller has called, "none" before a call
    outcome,    \* how that call ended
    steps,      \* the construction steps that call started, in order
    failed      \* the construction step of that call that raised, or "none"

\* concurrent callers: per caller, its arguments, its position in the
\* function it is running and that call's local variables
VARIABLE call

\* the command-line program: the run of run_program, and a direct call of one
\* of the Google Drive functions
VARIABLES prog, gcall

\* a direct call of one of the file functions of helper_module.py
VARIABLE fcall

\* the state outside the single caller's calls
outside == <<call, prog, gcall, fcall>>

vars ==
    <<workplan, job_title, fn, outcome, steps, failed, earlier, call, prog,
      gcall, fcall>>

\* the callers that run concurrently
Callers == 1..NumCallers

\* a caller that holds its arguments and has not called yet
IdleCall(w) ==
    [pc |-> "idle", fn |-> "none", fault |-> "none", workplan |-> w,
     responsibilities |-> <<>>, r_values |-> <<>>, outcome |-> NoOutcome]

\* the caller holds no chart
NoChart == PyNone

\* run_program has not been started
IdleProg ==
    [which |-> "none", pc |-> "idle", iter |-> 1, k |-> 1,
     folderID |-> PyNone, position_description |-> PyNone,
     image_file |-> PyNone, word_document |-> PyNone, send |-> PyNone,
     progress |-> 0, trace |-> <<>>, exc |-> "", ret |-> PyNone,
     effects |-> {}]

\* no Google Drive function has been called directly
IdleGcall ==
    [fn |-> "none", folder |-> PyNone, login |-> <<>>, content |-> FALSE,
     upload |-> FALSE, outcome |-> NoOutcome, attempts |-> 0,
     uploaded |-> FALSE]

\* no file function has been called directly
IdleFcall ==
    [fn |-> "none", arg |-> PyNone, outcome |-> NoOutcome, checks |-> <<>>,
     effects |-> {}, path |-> "", img_exists |-> FALSE, title |-> <<>>,
     image_filename |-> <<>>, name |-> <<>>]

Builders == {"position_radarchart", "create_radarchart"}

Init ==
    /\ IsDictInput(workplan) \/ IsOtherInput(workplan)
    /\ job_title \in Titles
    /\ fn = "none"
    /\ outcome = NoOutcome
    /\ steps = <<>>
    /\ failed = "none"
    /\ earlier = [b \in Builders |-> NoChart]
    /\ call = [c \in Callers |-> IdleCall(PyNone)]
    /\ prog = IdleProg
    /\ gcall = IdleGcall
    /\ fcall = IdleFcall

Call_validate_workplan ==
    /\ fn = "none"
    /\ fn' = "validate_workplan"
    /\ outcome' = validate_workplan(workplan)
    /\ steps' = <<>>
    /\ failed' = "none"
    /\ UNCHANGED <<workplan, job_title, earlier>>
    /\ UNCHANGED outside

Call_hm_validate_workplan ==
    /\ fn = "none"
    /\ fn' = "hm_validate_workplan"
    /\ outcome' = hm_validate_workplan(workplan)
    /\ steps' = <<>>
    /\ failed' = "none"
    /\ UNCHANGED <<workplan, job_title, earlier>>
    /\ UNCHANGED outside

\* a variant of the builder that empties the workplan as it reads it
Call_position_radarchart_pops ==
    /\ fn = "none"
    /\ \E fault \in Faults \ {"Figure"} :
          LET res == position_radarchart(job_title, workplan, fault)
          IN  /\ outcome' = res.outcome
              /\ steps' = res.steps
              /\ failed' = res.failed
              /\ workplan' = IF res.steps = <<>> THEN workplan
                             ELSE [workplan EXCEPT !.items = <<>>]
    /\ fn' = "position_radarchart"
    /\ UNCHANGED <<job_title, earlier>>
    /\ UNCHANGED outside

Call_position_radarchart ==
    /\ fn = "none"
    /\ \E fault \in Faults \ {"Figure"} :
          LET res == position_radarchart(job_title, workplan, fault)
          IN  /\ outcome' = res.outcome
              /\ steps' = res.steps
              /\ failed' = res.failed
    /\ fn' = "position_radarchart"
    /\ UNCHANGED <<workplan, job_title, earlier>>
    /\ UNCHANGED outside

Call_create_radarchart ==
    /\ fn = "none"
    /\ \E fault \in Faults :
          LET res == create_radarchart([title |-> job_title,
                                        breakdown |-> workplan], fault)
          IN  /\ outcome' = res.outcome
              /\ steps' = res.steps
              /\ failed' = res.failed
    /\ fn' = "create_radarchart"
    /\ UNCHANGED <<workplan, job_title, earlier>>
    /\ UNCHANGED outside

\* the caller takes the result, keeps a chart it was given, and is free to
\* call again
CallerContinues ==
    /\ fn # "none"
    /\ fn' = "none"
    /\ outcome' = NoOutcome
    /\ steps' = <<>>
    /\ failed' = "none"
    /\ earlier' =
         IF /\ fn \in Builders
            /\ outcome.kind = "return"
            /\ outcome.value.ty \in {"dict", "Figure"}
         THEN [earlier EXCEPT ![fn] = outcome.value]
         ELSE earlier
    /\ UNCHANGED <<workplan, job_title>>
    /\ UNCHANGED outside

Next ==
    \/ Call_validate_workplan
    \/ Call_hm_validate_workplan
    \/ Call_position_radarchart
    \/ Call_create_radarchart
    \/ CallerContinues

Spec == Init /\ [][Next]_vars

(* -------------------------- concurrent callers ------------------------- *)

\* the arguments the concurrent callers pass
ConcInputs ==
    {Container("dict", MakeEntries(<<"repair", "inspection", "paperwork">>,
                                   <<PyInt(40), PyInt(35), PyInt(25)>>)),
     Container("dict", MakeEntries(<<"paperwork", "repair", "inspection">>,
                                   <<PyInt(-40), PyInt(100), PyInt(40)>>)),
     Container("dict", MakeEntries(<<"repair">>, <<PyInt(100)>>)),
     Container("dict", MakeEntries(<<"repair", "inspection">>,
                                   <<PyInt(25), PyInt(35)>>)),
     Container("dict", MakeEntries(<<"repair">>, <<Scalar("bool", 1)>>)),
     Container("dict", <<>>),
     Container("list", MakeEntries(<<"repair">>, <<PyInt(100)>>))}

ConcInit ==
    /\ workplan = PyNone
    /\ job_title \in Titles
    /\ fn = "none"
    /\ outcome = NoOutcome
    /\ steps = <<>>
    /\ failed = "none"
    /\ earlier = [b \in Builders |-> NoChart]
    /\ \E ws \in [Callers -> ConcInputs] :
          call = [c \in Callers |-> IdleCall(ws[c])]
    /\ prog = IdleProg
    /\ gcall = IdleGcall
    /\ fcall = IdleFcall

core ==
    <<workplan, job_title, fn, outcome, steps, failed, earlier, prog, gcall,
      fcall>>

\* caller c calls validate_workplan or position_radarchart of chart.py
Conc_Call(c) ==
    /\ call[c].pc = "idle"
    /\ \/ call' = [call EXCEPT ![c].fn = "validate_workplan",
                                ![c].pc = "validate"]
       \/ \E fault \in Faults \ {"Figure"} :
             call' = [call EXCEPT ![c].fn = "position_radarchart",
                                  ![c].fault = fault,
                                  ![c].pc = "validate"]
    /\ UNCHANGED core

\* the call of c runs validate_workplan on its argument
Conc_Validate(c) ==
    /\ call[c].pc = "validate"
    /\ LET v == validate_workplan(call[c].workplan)
       IN  call' =
             IF call[c].fn = "validate_workplan" \/ v.kind = "raise"
             THEN [call EXCEPT ![c].outcome = v, ![c].pc = "done"]
             ELSE IF Truthy(v.value)
             THEN [call EXCEPT ![c].pc = "read"]
             ELSE [call EXCEPT
                     ![c].outcome = Raise("InvalidParameterType", DictMsg,
                                          <<TypeRepr(call[c].workplan)>>),
                     ![c].pc = "done"]
    /\ UNCHANGED core

\* a variant that keeps responsibilities and r_values at module level, where
\* every running call sees the lists of the latest reader
Conc_Read_global(c) ==
    /\ call[c].pc = "read"
    /\ call' = [d \in Callers |->
                 IF d = c
                 THEN [call[c] EXCEPT
                         !.responsibilities = Keys(call[c].workplan),
                         !.r_values = Values(call[c].workplan),
                         !.pc = "build"]
                 ELSE IF call[d].pc = "build"
                 THEN [call[d] EXCEPT
                         !.responsibilities = Keys(call[c].workplan),
                         !.r_values = Values(call[c].workplan)]
                 ELSE call[d]]
    /\ UNCHANGED core

\* the call of c copies the keys and the values of its argument into its
\* local lists
Conc_Read(c) ==
    /\ call[c].pc = "read"
    /\ call' = [call EXCEPT
                 ![c].responsibilities = Keys(call[c].workplan),
                 ![c].r_values = Values(call[c].workplan),
                 ![c].pc = "build"]
    /\ UNCHANGED core

\* the call of c builds the figure from its local lists and returns
Conc_Build(c) ==
    /\ call[c].pc = "build"
    /\ LET r_values == call[c].r_values
           result ==
             IF r_values = <<>>
             THEN Return(ExcObj("ValueError"))
             ELSE IF \E i \in 1..Len(r_values) : r_values[i].ty = "str"
             THEN Return(ExcObj("TypeError"))
             ELSE IF call[c].fault = "Scatterpolar"
             THEN Return(ExcObj("PlotlyError"))
             ELSE Return([ty |-> "dict",
                          data |-> <<Scatterpolar(
                                       [i \in 1..Len(r_values) |->
                                           r_values[i].n],
                                       call[c].responsibilities)>>,
                          layout |-> Layout(job_title, AxisRange(r_values))])
       IN  call' = [call EXCEPT ![c].outcome = result, ![c].pc = "done"]
    /\ UNCHANGED core

ConcNext ==
    \E c \in Callers :
        \/ Conc_Call(c)
        \/ Conc_Validate(c)
        \/ Conc_Read(c)
        \/ Conc_Build(c)

ConcSpec == ConcInit /\ [][ConcNext]_vars

(* ------------------------ Google Drive functions ----------------------- *)

\* range(3) of the authentication loop
AuthRange == 3

\* len(execution_steps), the total of the progress bar
NumSteps == 5

\* a non-empty string
PyStr == Scalar("str", 1)

\* the empty string
PyEmptyStr == Scalar("str", 0)

\* the connected pydrive.drive.GoogleDrive object
PyDrive == Scalar("GoogleDrive", 0)

\* google_authentication(): loginOK says whether GoogleAuth and
\* LocalWebserverAuth go through
google_authentication(loginOK) ==
    IF loginOK THEN Return(PyDrive) ELSE Return(PyInt(1))

\* googledrive_upload(googledrive, file, folder): contentOK and uploadOK say
\* whether SetContentFile and Upload go through.  Gives the outcome and
\* whether the file reached Google Drive.
googledrive_upload(googledrive, file, folder, contentOK, uploadOK) ==
    LET raised(exc) ==
            [outcome |-> Raise(exc, "", <<>>), uploaded |-> FALSE]
        create_and_set ==
            IF googledrive.ty # "GoogleDrive" THEN "AttributeError"
            ELSE IF file.ty = "NoneType" THEN "TypeError"
            ELSE IF ~contentOK THEN "IOError"
            ELSE ""
    IN  IF folder = PyNone
        THEN IF create_and_set # "" THEN raised(create_and_set)
             ELSE IF ~uploadOK THEN raised("ApiRequestError")
             ELSE [outcome |-> Return(PyInt(0)), uploaded |-> TRUE]
        ELSE IF create_and_set # "" THEN raised(create_and_set)
             ELSE IF ~uploadOK THEN raised("ApiRequestError")
             ELSE [outcome |-> Return(PyNone), uploaded |-> TRUE]

\* for attempt in range(3): drive = google_authentication(); attempts += 1;
\* if drive: break.  login[i] says whether the i-th login would go through.
RECURSIVE AuthLoop(_, _, _, _)
AuthLoop(login, i, drive, attempts) ==
    IF i > AuthRange
    THEN [drive |-> drive, attempts |-> attempts]
    ELSE LET d == google_authentication(login[i]).value
         IN  IF Truthy(d)
             THEN [drive |-> d, attempts |-> attempts + 1]
             ELSE AuthLoop(login, i + 1, d, attempts + 1)

\* send_to_Googledocs(file, folder)
send_to_Googledocs(file, folder, login, contentOK, uploadOK) ==
    LET auth == AuthLoop(login, 1, PyNone, 0)
        up == googledrive_upload(auth.drive, file, folder, contentOK, uploadOK)
    IN  IF up.outcome.kind = "raise"
        THEN [outcome |-> up.outcome, attempts |-> auth.attempts,
              uploaded |-> FALSE]
        ELSE [outcome |-> Return(PyInt(0)), attempts |-> auth.attempts,
              uploaded |-> up.uploaded]

(* ----------------------------- chart files ----------------------------- *)

\* the seconds ensure_filepath_exists and create_document sleep before each
\* further existence check
wait_seconds_iterable == <<1, 2, 3, 4, 5>>

\* the existence checks a call can make: the first, one after each sleep, and
\* the one before the error message
NumChecks == Len(wait_seconds_iterable) + 2

\* for second in wait_seconds_iterable: time.sleep(second);
\* if os.path.exists(filename): path = filename; break.
\* exists[k] is what the k-th existence check of the call observes.
RECURSIVE WaitForFile(_, _)
WaitForFile(exists, i) ==
    IF i > Len(wait_seconds_iterable)
    THEN [found |-> FALSE, made |-> 1 + Len(wait_seconds_iterable)]
    ELSE IF exists[1 + i] THEN [found |-> TRUE, made |-> 1 + i]
    ELSE WaitForFile(exists, i + 1)

\* a variant that binds path before the checks
ensure_filepath_exists_unchecked(filename, exists) ==
    LET loop == IF exists[1] THEN [found |-> TRUE, made |-> 1]
                ELSE WaitForFile(exists, 1)
    IN  [outcome |-> Return(filename),
         checks |-> SubSeq(exists, 1, loop.made + 1)]

\* ensure_filepath_exists(filename): gives the outcome and the observations
\* of the existence checks the call made, in order
ensure_filepath_exists(filename, exists) ==
    LET loop == IF exists[1] THEN [found |-> TRUE, made |-> 1]
                ELSE WaitForFile(exists, 1)
    IN  [outcome |-> IF loop.found THEN Return(filename)
                     ELSE Raise("UnboundLocalError", "", <<>>),
         checks |-> SubSeq(exists, 1, loop.made + 1)]

\* a variant whose except clause gives up the error and returns nothing
save_plot_swallows(position, fault, writeOK) ==
    LET figure == create_radarchart(position, fault).outcome
    IN  IF figure.kind = "raise" \/ ~Truthy(figure.value)
        THEN [outcome |-> Return(PyNone), written |-> FALSE]
        ELSE IF figure.value.ty # "Figure"
        THEN [outcome |-> Raise("AttributeError", "", <<>>),
              written |-> FALSE]
        ELSE IF ~writeOK
        THEN [outcome |-> Raise("ValueError", "", <<>>), written |-> FALSE]
        ELSE [outcome |-> Return(Scalar("tuple", 2)), written |-> TRUE]

\* save_plot(position): fault is the plotly call that raises inside
\* create_radarchart, writeOK whether write_image and the wait for the file
\* go through.  Gives the outcome and whether the image file was written.
save_plot(position, fault, writeOK) ==
    LET figure == create_radarchart(position, fault).outcome
    IN  IF figure.kind = "raise"
        THEN [outcome |-> figure, written |-> FALSE]
        ELSE IF ~Truthy(figure.value)
        THEN [outcome |-> Return(PyNone), written |-> FALSE]
        ELSE IF figure.value.ty # "Figure"
        THEN [outcome |-> Raise("AttributeError", "", <<>>),
              written |-> FALSE]
        ELSE IF ~writeOK
        THEN [outcome |-> Raise("ValueError", "", <<>>), written |-> FALSE]
        ELSE [outcome |-> Return(Scalar("tuple", 2)), written |-> TRUE]

\* generate_plot(position): publishOK says whether py.plot goes through.
\* Gives the outcome, and whether the image was written and the chart
\* published.
generate_plot(position, fault, writeOK, publishOK) ==
    LET nothing(o) == [outcome |-> o, written |-> FALSE, published |-> FALSE]
        saved == save_plot(position, fault, writeOK)
    IN  IF position.ty = "NoneType"
        THEN nothing(Raise("TypeError", "", <<>>))
        ELSE IF saved.outcome.kind = "raise"
        THEN nothing(saved.outcome)
        ELSE IF saved.outcome.value.ty # "tuple"
        THEN nothing(Raise("TypeError", "", <<>>))
        ELSE IF ~publishOK
        THEN [outcome |-> Raise("PlotlyRequestError", "", <<>>),
              written |-> TRUE, published |-> FALSE]
        ELSE [outcome |-> Return(Scalar("tuple", 2)),
              written |-> TRUE, published |-> TRUE]

(* --------------------------- chart file names -------------------------- *)

\* file names are sequences of characters

\* the characters of a position title
TitleChars == {"A", " ", "."}

TitleTexts ==
    UNION {[1..n -> TitleChars] : n \in 1..MaxTitleLen}

\* datetime.now().strftime('%Y-%m-%d')
TimestampText == <<"2", "0", "1", "9", "-", "0", "9", "-", "1", "0">>

\* the extension parameter of save_plot
Extensions == {<<"p", "n", "g">>, <<"s", "v", "g">>}

\* folder = 'data/charts'
ChartFolder == <<"d", "a", "t", "a", "/", "c", "h", "a", "r", "t", "s">>

\* the directory parameter of strip_filename
ChartDirectory == ChartFolder \o <<"/">>

\* file = f"{position['title']} {timestamp}.{extension}";
\* filename = os.path.join(folder, file)
ChartFileName(title, timestamp, extension) ==
    ChartFolder \o <<"/">> \o title \o <<" ">> \o timestamp \o <<".">>
        \o extension

\* sep occurs in text at position i
OccursAt(text, sep, i) ==
    /\ i + Len(sep) - 1 <= Len(text)
    /\ SubSeq(text, i, i + Len(sep) - 1) = sep

\* text.split(sep): the pieces of text between the occurrences of sep, found
\* from the left
RECURSIVE SplitFrom(_, _, _, _, _)
SplitFrom(text, sep, start, i, pieces) ==
    IF i > Len(text)
    THEN Append(pieces, SubSeq(text, start, Len(text)))
    ELSE IF OccursAt(text, sep, i)
    THEN SplitFrom(text, sep, i + Len(sep), i + Len(sep),
                   Append(pieces, SubSeq(text, start, i - 1)))
    ELSE SplitFrom(text, sep, start, i + 1, pieces)

split(text, sep) == SplitFrom(text, sep, 1, 1, <<>>)

\* strip_filename(image_filename, directory):
\* image_filename.split('.')[0].split(directory)[1]
strip_filename(image_filename, directory) ==
    LET before_dot == split(image_filename, <<".">>)[1]
        parts == split(before_dot, directory)
    IN  IF Len(parts) < 2
        THEN [outcome |-> Raise("IndexError", "", <<>>), name |-> <<>>]
        ELSE [outcome |-> Return(PyStr), name |-> parts[2]]

(* ------------------------------ documents ------------------------------ *)

\* datetime.now().strftime('%Y-%m-%d') on the days of the calls
Timestamps == {"2019-12-24", "2019-12-25"}

\* f"{position['title']} {timestamp}.docx"
DocxName(title, timestamp) == title \o " " \o timestamp \o ".docx"

\* create_document(position, img_file): img_exists is what
\* os.path.exists(img_file) gives, insertOK and saveOK whether insert_image
\* and doc.save go through, exists[k] what the k-th existence check of the
\* saved file observes.  Gives the outcome, the text of the returned path,
\* the checks made and what the call did: "saved" when the file was written,
\* "image" when the chart image was inserted.
create_document(position, img_exists, insertOK, saveOK, exists, timestamp) ==
    LET result(o, path, checks, effects) ==
            [outcome |-> o, path |-> path, checks |-> checks,
             effects |-> effects]
        filename == DocxName(position.title, timestamp)
        image == IF img_exists THEN {"image"} ELSE {}
        loop == IF exists[1] THEN [found |-> TRUE, made |-> 1]
                ELSE WaitForFile(exists, 1)
        checks == SubSeq(exists, 1, loop.made)
    IN  IF position.ty = "NoneType"
        THEN result(Raise("TypeError", "", <<>>), "", <<>>, {})
        ELSE IF img_exists /\ ~insertOK
        THEN result(Raise("Exception", "", <<>>), "", <<>>, {})
        ELSE IF ~saveOK
        THEN result(Return(PyNone), "", <<>>, image)
        ELSE IF ~loop.found
        THEN result(Return(PyNone), "", checks, image \cup {"saved"})
        ELSE result(Return(PyStr), filename, checks, image \cup {"saved"})

(* ----------------------------- run_program ----------------------------- *)

\* the workplans the position file may hold
ProgWorkplans ==
    {Container("dict", MakeEntries(<<"repair", "inspection", "paperwork">>,
                                   <<PyInt(40), PyInt(35), PyInt(25)>>)),
     Container("dict", MakeEntries(<<"repair", "inspection">>,
                                   <<PyInt(25), PyInt(35)>>)),
     Container("dict", MakeEntries(<<"repair", "inspection">>,
                                   <<Scalar("float", 35), PyInt(65)>>))}

\* the dictionary create_position_object gives
PositionObj(w) ==
    [ty |-> "dict", n |-> 0, items |-> <<>>, title |-> "Auto Mechanic II",
     breakdown |-> w]

StepNames ==
    <<"get_googledrive_folderID", "get_position", "generate_plot",
      "create_document", "send_to_Googledocs">>

ProgInit ==
    /\ workplan = PyNone
    /\ job_title = "Auto Mechanic II"
    /\ fn = "none"
    /\ outcome = NoOutcome
    /\ steps = <<>>
    /\ failed = "none"
    /\ earlier = [b \in Builders |-> NoChart]
    /\ call = [c \in Callers |-> IdleCall(PyNone)]
    /\ prog = IdleProg
    /\ gcall = IdleGcall
    /\ fcall = IdleFcall

notProg ==
    <<workplan, job_title, fn, outcome, steps, failed, earlier, call, gcall,
      fcall>>

notGcall ==
    <<workplan, job_title, fn, outcome, steps, failed, earlier, call, prog,
      fcall>>

notFcall ==
    <<workplan, job_title, fn, outcome, steps, failed, earlier, call, prog,
      gcall>>

\* run_program is called: the five variables are None and the loop starts
\* with the first element of execution_steps at the first if statement
RP_Start ==
    /\ prog.pc = "idle"
    /\ gcall.fn = "none"
    /\ fcall.fn = "none"
    /\ \E which \in {"position.py", "helper_module.py"} :
          prog' = [IdleProg EXCEPT !.which = which, !.pc = "loop"]
    /\ UNCHANGED notProg

\* the element of execution_steps the loop is at: the list holds the five
\* values the variables had when it was built
LoopStep == PyNone

\* a variant that tests only the variable: if not <variable>
StepCondition_not_variable(variable) == ~Truthy(variable)

\* step == <variable> and not step
StepCondition(variable) == LoopStep = variable /\ ~Truthy(LoopStep)

\* the position after the k-th if statement of an iteration
Advance(p) ==
    IF p.k < NumSteps THEN [p EXCEPT !.k = p.k + 1]
    ELSE IF p.iter < NumSteps THEN [p EXCEPT !.k = 1, !.iter = p.iter + 1]
    ELSE [p EXCEPT !.pc = "done", !.ret = PyNone]

\* the step function returned: progress_bar.update(1)
Returned(p, ok) ==
    [p EXCEPT !.progress = p.progress + 1,
              !.trace = Append(p.trace, [step |-> StepNames[p.k], ok |-> ok])]

\* the step function, or the evaluation of its arguments, raised
Failed(p, exc) ==
    [p EXCEPT !.pc = "raised", !.exc = exc,
              !.trace = Append(p.trace, [step |-> StepNames[p.k], ok |-> FALSE])]

\* what the calls of a step did outside the program: "image" a chart image
\* written, "chart" a chart published, "document" a document saved, "upload"
\* a file uploaded to Google Drive
Did(p, done) == [p EXCEPT !.effects = p.effects \cup done]

Effect(name, happened) == IF happened THEN {name} ELSE {}

\* an if statement whose condition is false
RP_Skip ==
    /\ prog.pc = "loop"
    /\ LET variable ==
             CASE prog.k = 1 -> prog.folderID
               [] prog.k = 2 -> prog.position_description
               [] prog.k = 3 -> prog.image_file
               [] prog.k = 4 -> prog.word_document
               [] prog.k = 5 -> prog.send
       IN  ~StepCondition(variable)
    /\ prog' = Advance(prog)
    /\ UNCHANGED notProg

\* folderID = get_googledrive_folderID(division): the configured ID, an
\* empty or missing ID, or a division the file does not hold
RP_FolderID ==
    /\ prog.pc = "loop"
    /\ prog.k = 1
    /\ StepCondition(prog.folderID)
    /\ \/ \E id \in {PyStr, PyEmptyStr, PyNone} :
            prog' = Advance(Returned([prog EXCEPT !.folderID = id],
                                     id = PyStr))
       \/ prog' = Failed(prog, "KeyError")
    /\ UNCHANGED notProg

\* position_description = get_position(yaml_file); helper_module.py passes
\* the name filename, which is bound nowhere
RP_Position ==
    /\ prog.pc = "loop"
    /\ prog.k = 2
    /\ StepCondition(prog.position_description)
    /\ IF prog.which = "helper_module.py"
       THEN prog' = Failed(prog, "NameError")
       ELSE \/ \E w \in ProgWorkplans :
                 prog' = Advance(Returned(
                    [prog EXCEPT !.position_description = PositionObj(w)],
                    TRUE))
            \/ prog' = Advance(Returned(prog, FALSE))
    /\ UNCHANGED notProg

\* image_file, radarchart_url = generate_plot(position_description)
RP_Plot ==
    /\ prog.pc = "loop"
    /\ prog.k = 3
    /\ StepCondition(prog.image_file)
    /\ \E fault \in Faults, writeOK \in BOOLEAN, publishOK \in BOOLEAN :
          LET res == generate_plot(prog.position_description, fault, writeOK,
                                   publishOK)
              did == Did(prog, Effect("image", res.written)
                                   \cup Effect("chart", res.published))
          IN  prog' = IF res.outcome.kind = "raise"
                      THEN Failed(did, res.outcome.exc)
                      ELSE Advance(Returned(
                              [did EXCEPT !.image_file = PyStr], TRUE))
    /\ UNCHANGED notProg

\* word_document = create_document(position_description, image_file): the
\* path of the saved document, None when the save failed, or the error of
\* insert_image
RP_Document ==
    /\ prog.pc = "loop"
    /\ prog.k = 4
    /\ StepCondition(prog.word_document)
    /\ \E img_exists \in BOOLEAN, insertOK \in BOOLEAN, saveOK \in BOOLEAN,
          exists \in [1..NumChecks -> BOOLEAN], timestamp \in Timestamps :
          LET res == create_document(prog.position_description, img_exists,
                                     insertOK, saveOK, exists, timestamp)
              did == Did(prog, Effect("document", "saved" \in res.effects))
          IN  prog' = IF res.outcome.kind = "raise"
                      THEN Failed(did, res.outcome.exc)
                      ELSE IF res.outcome.value = PyNone
                      THEN Advance(Returned(did, FALSE))
                      ELSE Advance(Returned(
                              [did EXCEPT !.word_document = PyStr], TRUE))
    /\ UNCHANGED notProg

\* send = send_to_Googledocs(word_document, folderID)
RP_Send ==
    /\ prog.pc = "loop"
    /\ prog.k = 5
    /\ StepCondition(prog.send)
    /\ \E login \in [1..AuthRange -> BOOLEAN], contentOK \in BOOLEAN,
          uploadOK \in BOOLEAN :
          LET res == send_to_Googledocs(prog.word_document, prog.folderID,
                                        login, contentOK, uploadOK)
              did == Did(prog, Effect("upload", res.uploaded))
          IN  prog' = IF res.outcome.kind = "raise"
                      THEN Failed(did, res.outcome.exc)
                      ELSE Advance(Returned(
                              [did EXCEPT !.send = res.outcome.value],
                              res.uploaded))
    /\ UNCHANGED notProg

\* a direct call of send_to_Googledocs
Call_send_to_Googledocs ==
    /\ gcall.fn = "none"
    /\ fcall.fn = "none"
    /\ prog.pc = "idle"
    /\ \E folder \in {PyStr, PyNone}, login \in [1..AuthRange -> BOOLEAN],
          contentOK \in BOOLEAN, uploadOK \in BOOLEAN :
          LET res == send_to_Googledocs(PyStr, folder, login, contentOK,
                                        uploadOK)
          IN  gcall' = [fn |-> "send_to_Googledocs", folder |-> folder,
                        login |-> login, content |-> contentOK,
                        upload |-> uploadOK, outcome |-> res.outcome,
                        attempts |-> res.attempts, uploaded |-> res.uploaded]
    /\ UNCHANGED notGcall

\* a direct call of googledrive_upload with a connected drive
Call_googledrive_upload ==
    /\ gcall.fn = "none"
    /\ fcall.fn = "none"
    /\ prog.pc = "idle"
    /\ \E folder \in {PyStr, PyNone}, contentOK \in BOOLEAN,
          uploadOK \in BOOLEAN :
          LET res == googledrive_upload(PyDrive, PyStr, folder, contentOK,
                                        uploadOK)
          IN  gcall' = [fn |-> "googledrive_upload", folder |-> folder,
                        login |-> <<>>, content |-> contentOK,
                        upload |-> uploadOK, outcome |-> res.outcome,
                        attempts |-> 0, uploaded |-> res.uploaded]
    /\ UNCHANGED notGcall

\* no call has been made yet
NothingCalled == prog.pc = "idle" /\ gcall.fn = "none" /\ fcall.fn = "none"

\* a direct call of ensure_filepath_exists
Call_ensure_filepath_exists ==
    /\ NothingCalled
    /\ \E exists \in [1..NumChecks -> BOOLEAN] :
          LET res == ensure_filepath_exists(PyStr, exists)
          IN  fcall' = [IdleFcall EXCEPT !.fn = "ensure_filepath_exists",
                                         !.arg = PyStr,
                                         !.outcome = res.outcome,
                                         !.checks = res.checks]
    /\ UNCHANGED notFcall

\* a direct call of create_document
Call_create_document ==
    /\ NothingCalled
    /\ \E w \in ProgWorkplans, img_exists \in BOOLEAN, insertOK \in BOOLEAN,
          saveOK \in BOOLEAN, exists \in [1..NumChecks -> BOOLEAN],
          timestamp \in Timestamps :
          LET res == create_document(PositionObj(w), img_exists, insertOK,
                                     saveOK, exists, timestamp)
          IN  fcall' = [IdleFcall EXCEPT !.fn = "create_document",
                                         !.arg = PositionObj(w),
                                         !.img_exists = img_exists,
                                         !.outcome = res.outcome,
                                         !.path = res.path,
                                         !.checks = res.checks,
                                         !.effects = res.effects]
    /\ UNCHANGED notFcall

\* a direct call of strip_filename with a file name save_plot built
Call_strip_filename ==
    /\ NothingCalled
    /\ \E title \in TitleTexts, extension \in Extensions :
          LET image_filename ==
                  ChartFileName(title, TimestampText, extension)
              res == strip_filename(image_filename, ChartDirectory)
          IN  fcall' = [IdleFcall EXCEPT !.fn = "strip_filename",
                                         !.title = title,
                                         !.image_filename = image_filename,
                                         !.outcome = res.outcome,
                                         !.name = res.name]
    /\ UNCHANGED notFcall

\* a direct call of save_plot
Call_save_plot ==
    /\ NothingCalled
    /\ \E w \in ProgWorkplans, fault \in Faults, writeOK \in BOOLEAN :
          LET res == save_plot(PositionObj(w), fault, writeOK)
          IN  fcall' = [IdleFcall EXCEPT
                           !.fn = "save_plot",
                           !.arg = PositionObj(w),
                           !.outcome = res.outcome,
                           !.effects = Effect("image", res.written)]
    /\ UNCHANGED notFcall

\* a direct call of generate_plot
Call_generate_plot ==
    /\ NothingCalled
    /\ \E w \in ProgWorkplans, fault \in Faults, writeOK \in BOOLEAN,
          publishOK \in BOOLEAN :
          LET res == generate_plot(PositionObj(w), fault, writeOK, publishOK)
          IN  fcall' = [IdleFcall EXCEPT
                           !.fn = "generate_plot",
                           !.arg = PositionObj(w),
                           !.outcome = res.outcome,
                           !.effects = Effect("image", res.written)
                                          \cup Effect("chart", res.published)]
    /\ UNCHANGED notFcall

ProgNext ==
    \/ RP_Start
    \/ RP_Skip
    \/ RP_FolderID
    \/ RP_Position
    \/ RP_Plot
    \/ RP_Document
    \/ RP_Send
    \/ Call_send_to_Googledocs
    \/ Call_googledrive_upload
    \/ Call_ensure_filepath_exists
    \/ Call_create_document
    \/ Call_strip_filename
    \/ Call_save_plot
    \/ Call_generate_plot

ProgSpec == ProgInit /\ [][ProgNext]_vars

(* ------------------------- vocabulary of the claims -------------------- *)

IsValidateCall == fn \in {"validate_workplan", "hm_validate_workplan"}

IsBuilderCall == fn \in {"position_radarchart", "create_radarchart"}

\* the object is a mapping: a dict or an ordered dict
IsMapping(w) == w.ty \in {"dict", "OrderedDict"}

NumEntries(w) == Len(w.items)

\* every value is exactly of integer type
AllExactInt(w) == \A i \in 1..NumEntries(w) : w.items[i].value.ty = "int"

\* the total of the first k values
RECURSIVE TotalUpTo(_, _)
TotalUpTo(w, k) ==
    IF k = 0 THEN 0 ELSE TotalUpTo(w, k - 1) + w.items[k].value.n

Total(w) == TotalUpTo(w, NumEntries(w))

\* the workplan meets all three constraints
IsValidWorkplan(w) == IsMapping(w) /\ AllExactInt(w) /\ Total(w) = 100

Raised(exc) == outcome.kind = "raise" /\ outcome.exc = exc

ReturnedTrue ==
    outcome.kind = "return" /\ outcome.value.ty = "bool" /\ outcome.value.n = 1

\* the call returned a chart
ReturnedChart ==
    outcome.kind = "return" /\ outcome.value.ty \in {"dict", "Figure"}

(* -------------------------------- claims ------------------------------- *)

\* C1: for every mapping whose values are all exactly integers and sum to
\* 100, validate_workplan returns True and raises nothing, whatever the
\* number of entries, their labels or their order.
C1_ValidReturnsTrue ==
    (IsValidateCall /\ IsValidWorkplan(workplan)) => ReturnedTrue

C1_Witness ==
    /\ fn = "validate_workplan"
    /\ NumEntries(workplan) = 3
    /\ IsValidWorkplan(workplan)
    /\ \E i \in 1..3 : workplan.items[i].value.n < 0
    /\ outcome.kind = "return"

\* C2: a mapping with at least one value that is not exactly an integer
\* fails with ValuesNotTypeInt, whatever its values sum to: the type check
\* comes before the sum check.
C2_NonIntRejectedFirst ==
    (IsValidateCall /\ IsMapping(workplan) /\ ~AllExactInt(workplan))
        => Raised("ValuesNotTypeInt")

C2_Witness ==
    /\ fn = "validate_workplan"
    /\ IsMapping(workplan)
    /\ ~AllExactInt(workplan)
    /\ Total(workplan) = 100
    /\ Raised("ValuesNotTypeInt")

\* the types of the values that are not exactly integers, in mapping order
RECURSIVE OffendingUpTo(_, _)
OffendingUpTo(w, k) ==
    IF k = 0 THEN <<>>
    ELSE OffendingUpTo(w, k - 1) \o
         (IF w.items[k].value.ty = "int" THEN <<>>
          ELSE <<"<class '" \o w.items[k].value.ty \o "'>">>)

\* C3: whenever validate_workplan fails with ValuesNotTypeInt, the message
\* lists the type of every value that failed the integer check, one entry
\* per offending value in mapping order, so the list is never empty.
C3_MessageListsOffenders ==
    (IsValidateCall /\ Raised("ValuesNotTypeInt"))
        => /\ outcome.msg.args # <<>>
           /\ outcome.msg.args = OffendingUpTo(workplan, NumEntries(workplan))

\* C4: a mapping whose values are all integers and sum to something other
\* than 100 fails with ValuesDontSumTo100, and the message states the sum.
C4_WrongSumRejected ==
    (IsValidateCall /\ IsMapping(workplan) /\ AllExactInt(workplan)
        /\ Total(workplan) # 100)
        => /\ Raised("ValuesDontSumTo100")
           /\ outcome.msg.args = <<ToString(Total(workplan))>>

C4_Witness ==
    /\ fn = "validate_workplan"
    /\ IsMapping(workplan)
    /\ AllExactInt(workplan)
    /\ NumEntries(workplan) = 2
    /\ Total(workplan) = 60
    /\ Raised("ValuesDontSumTo100")

\* C5: an input that is not a mapping fails with InvalidParameterType,
\* whatever it contains, and the message reports the type received.
C5_NonMappingRejected ==
    (IsValidateCall /\ ~IsMapping(workplan))
        => /\ Raised("InvalidParameterType")
           /\ outcome.msg.args = <<"<class '" \o workplan.ty \o "'>">>

C5_Witness ==
    /\ fn = "validate_workplan"
    /\ workplan.ty = "list"
    /\ NumEntries(workplan) = 1
    /\ workplan.items[1].value = PyInt(100)
    /\ Raised("InvalidParameterType")

\* C6: the outcome of validate_workplan is exactly one of: returns True,
\* InvalidParameterType, ValuesNotTypeInt, ValuesDontSumTo100; it never
\* returns False, None or any other value.
C6_NoFalseReturn ==
    IsValidateCall =>
        \/ ReturnedTrue
        \/ /\ outcome.kind = "raise"
           /\ outcome.exc \in {"InvalidParameterType", "ValuesNotTypeInt",
                               "ValuesDontSumTo100"}

C6_Witness ==
    /\ fn = "hm_validate_workplan"
    /\ IsMapping(workplan)
    /\ AllExactInt(workplan)
    /\ Total(workplan) = 0
    /\ outcome.kind = "raise"

\* C7: when the workplan fails validation, the chart builder lets the
\* validation error through unchanged (same kind and message as
\* validate_workplan raises), returns nothing and starts no construction
\* step.
C7_ValidationErrorPropagates ==
    (IsBuilderCall /\ ~IsValidWorkplan(workplan))
        => /\ outcome.kind = "raise"
           /\ outcome.exc \in {"InvalidParameterType", "ValuesNotTypeInt",
                               "ValuesDontSumTo100"}
           /\ fn = "position_radarchart"
                => outcome = validate_workplan(workplan)
           /\ fn = "create_radarchart"
                => outcome = hm_validate_workplan(workplan)
           /\ steps = <<>>

C7_Witness ==
    /\ fn = "position_radarchart"
    /\ IsMapping(workplan)
    /\ NumEntries(workplan) = 3
    /\ ~AllExactInt(workplan)
    /\ Raised("ValuesNotTypeInt")
    /\ steps = <<>>

\* C8: for every valid workplan, the chart built has the workplan's labels
\* as categories in insertion order and the i-th value is the percentage of
\* the i-th label: nothing dropped, duplicated or reordered.
C8_CategoriesAndValuesInOrder ==
    (IsBuilderCall /\ IsValidWorkplan(workplan))
        => /\ outcome.kind = "return"
           /\ ReturnedChart =>
                LET trace == outcome.value.data[1]
                IN  /\ Len(outcome.value.data) = 1
                    /\ Len(trace.theta) = NumEntries(workplan)
                    /\ Len(trace.r) = NumEntries(workplan)
                    /\ \A i \in 1..NumEntries(workplan) :
                          /\ trace.theta[i] = workplan.items[i].key
                          /\ trace.r[i] = workplan.items[i].value.n

\* the example of the spec: repair 40, inspection 35, paperwork 25
C8_Witness ==
    /\ fn = "position_radarchart"
    /\ job_title = "Auto Mechanic II"
    /\ workplan.ty = "dict"
    /\ NumEntries(workplan) = 3
    /\ workplan.items[1] = [key |-> "repair", value |-> PyInt(40)]
    /\ workplan.items[2] = [key |-> "inspection", value |-> PyInt(35)]
    /\ workplan.items[3] = [key |-> "paperwork", value |-> PyInt(25)]
    /\ ReturnedChart
    /\ outcome.value.data[1].theta = <<"repair", "inspection", "paperwork">>
    /\ outcome.value.data[1].r = <<40, 35, 25>>

\* C9: for every valid workplan, the radial axis range of the chart built is
\* [0, largest value + 5].
C9_AxisRange ==
    (IsBuilderCall /\ IsValidWorkplan(workplan) /\ ReturnedChart)
        => LET range == outcome.value.layout.polar.radialaxis.range
           IN  /\ Len(range) = 2
               /\ range[1] = 0
               /\ \E i \in 1..NumEntries(workplan) :
                     range[2] = workplan.items[i].value.n + 5
               /\ \A i \in 1..NumEntries(workplan) :
                     workplan.items[i].value.n + 5 <= range[2]

C9_Witness ==
    /\ fn = "create_radarchart"
    /\ IsValidWorkplan(workplan)
    /\ NumEntries(workplan) = 3
    /\ workplan.items[2].value.n = 40
    /\ ReturnedChart
    /\ outcome.value.layout.polar.radialaxis.range = <<0, 45>>

\* C10: an empty workplan mapping is rejected with ValuesDontSumTo100 before
\* any construction step, so no call of the chart builder gives a chart with
\* zero categories and max() is never evaluated over an empty value list.
C10_EmptyWorkplanRejected ==
    /\ (fn # "none" /\ IsMapping(workplan) /\ NumEntries(workplan) = 0)
          => /\ Raised("ValuesDontSumTo100")
             /\ steps = <<>>
    /\ (IsBuilderCall /\ ReturnedChart)
          => Len(outcome.value.data[1].theta) > 0
    /\ (\E i \in 1..Len(steps) : steps[i] = "axis_range")
          => NumEntries(workplan) > 0

C10_Witness ==
    /\ fn = "position_radarchart"
    /\ workplan.ty = "dict"
    /\ NumEntries(workplan) = 0
    /\ Raised("ValuesDontSumTo100")
    /\ steps = <<>>

\* C11: every value of a workplan that passes validate_workplan is a
\* non-negative integer, so each lies in 0..100 and the axis upper bound of
\* any chart built lies in 5..105.
C11_ValuesNonNegative ==
    /\ (IsValidateCall /\ ReturnedTrue)
          => \A i \in 1..NumEntries(workplan) :
                /\ workplan.items[i].value.n >= 0
                /\ workplan.items[i].value.n <= 100
    /\ (IsBuilderCall /\ ReturnedChart)
          => outcome.value.layout.polar.radialaxis.range[2] \in 5..105

C13_InputsUnchanged ==
    [][(fn = "none" /\ fn' # "none")
          => /\ workplan' = workplan
             /\ job_title' = job_title
             /\ earlier' = earlier]_vars

C13_Witness ==
    /\ fn = "position_radarchart"
    /\ ReturnedChart
    /\ NumEntries(workplan) = 3
    /\ steps # <<>>

ExceptionTypes == {"ValueError", "TypeError", "PlotlyError"}

\* C14: when validation has passed and a construction step fails, the
\* builder catches the failure and returns the error object as its normal
\* return value; it raises nothing to its caller.
C14_ConstructionErrorReturned ==
    (IsBuilderCall /\ IsValidWorkplan(workplan))
        => /\ outcome.kind = "return"
           /\ failed # "none" => outcome.value.ty \in ExceptionTypes
           /\ failed = "none" => ReturnedChart

C14_Witness ==
    /\ fn = "create_radarchart"
    /\ IsValidWorkplan(workplan)
    /\ failed = "Figure"
    /\ outcome.kind = "return"
    /\ outcome.value.ty = "PlotlyError"

\* C15 as stated: the title of the chart is the input title, a newline, and
\* the word Responsibilities.
C15_TitleNewline ==
    (IsBuilderCall /\ ReturnedChart)
        => outcome.value.layout.title = job_title \o "\nResponsibilities"

\* C15 as amended: the title of the chart is the input title verbatim, the
\* HTML line break <br>, and the word Responsibilities.
C15_TitleBr ==
    (IsBuilderCall /\ ReturnedChart)
        => outcome.value.layout.title = job_title \o "<br>" \o "Responsibilities"

C15_Witness ==
    /\ fn = "create_radarchart"
    /\ job_title = "Secretary II"
    /\ ReturnedChart
    /\ outcome.value.layout.title = "Secretary II<br>Responsibilities"

\* the outcome of the call of c when it runs alone
AloneOutcome(c) ==
    IF call[c].fn = "validate_workplan"
    THEN validate_workplan(call[c].workplan)
    ELSE position_radarchart(job_title, call[c].workplan,
                             call[c].fault).outcome

\* C16: concurrent calls of validate_workplan and the chart builder by any
\* number of callers, in any interleaving, each end as the same call ends
\* when it runs alone, and no call changes another caller's argument.
C16_ConcurrentCallsIndependent ==
    \A c \in Callers :
        /\ call[c].pc = "done" => call[c].outcome = AloneOutcome(c)
        /\ call[c].workplan \in ConcInputs

\* two callers with different arguments have both finished a chart, one of
\* them after the other had read its argument
C16_Witness ==
    /\ call[1].pc = "done"
    /\ call[2].pc = "done"
    /\ call[1].fn = "position_radarchart"
    /\ call[2].fn = "position_radarchart"
    /\ call[1].outcome.value.ty = "dict"
    /\ call[2].outcome.value.ty = "dict"
    /\ call[1].workplan # call[2].workplan

\* every step function called so far returned its result of success
AllStepsSucceeded == \A i \in 1..Len(prog.trace) : prog.trace[i].ok

\* the names of the step functions called so far, in the order of the calls
StepsCalled == [i \in 1..Len(prog.trace) |-> prog.trace[i].step]

RunEnded == prog.pc \in {"done", "raised"}

\* C17: in a run of run_program in which every step succeeds, the five steps
\* are each executed exactly once, in the order folder ID, position, plot,
\* document, send, each after the one before it returned, and the progress
\* bar is advanced exactly five times.
C17_FiveStepsOnceInOrder ==
    (prog.pc = "done" /\ AllStepsSucceeded)
        => /\ StepsCalled = <<"get_googledrive_folderID", "get_position",
                              "generate_plot", "create_document",
                              "send_to_Googledocs">>
           /\ prog.progress = 5

C17_Witness ==
    /\ prog.which = "position.py"
    /\ prog.pc = "done"
    /\ AllStepsSucceeded
    /\ Len(prog.trace) = 5
    /\ prog.send = PyInt(0)
    /\ prog.progress = 5

\* C18: run_program of helper_module.py returns 0 when all of its steps
\* succeed and returns 1 when a step fails.
C18_ReturnsZeroOrOne ==
    (prog.which = "helper_module.py" /\ RunEnded)
        => /\ prog.pc = "done"
           /\ \/ AllStepsSucceeded /\ prog.ret = PyInt(0)
              \/ ~AllStepsSucceeded /\ prog.ret = PyInt(1)

\* C19: send_to_Googledocs returns 0 when the document was uploaded and
\* returns 1 when authentication or the upload fails.
C19_SendReturnCode ==
    gcall.fn = "send_to_Googledocs"
        => /\ gcall.outcome.kind = "return"
           /\ gcall.uploaded => gcall.outcome.value = PyInt(0)
           /\ ~gcall.uploaded => gcall.outcome.value = PyInt(1)

\* C20: googledrive_upload returns 0 when the upload succeeds and 1 when it
\* fails, with a target folder ID and with folder None.
C20_UploadReturnCode ==
    gcall.fn = "googledrive_upload"
        => /\ gcall.outcome.kind = "return"
           /\ gcall.uploaded => gcall.outcome.value = PyInt(0)
           /\ ~gcall.uploaded => gcall.outcome.value = PyInt(1)

\* some existence check of the call observed the file
ObservedToExist == \E i \in 1..Len(fcall.checks) : fcall.checks[i]

\* C21: whenever ensure_filepath_exists returns a path, it is the path it
\* was given and an existence check made during the call observed it; when
\* no check of the call observes the file, no path is returned.
C21_ReturnedPathWasObserved ==
    fcall.fn = "ensure_filepath_exists"
        => /\ fcall.outcome.kind = "return"
                => fcall.outcome.value = fcall.arg /\ ObservedToExist
           /\ ~ObservedToExist => fcall.outcome.kind # "return"

C21_Witness ==
    /\ fcall.fn = "ensure_filepath_exists"
    /\ fcall.outcome = Return(fcall.arg)
    /\ Len(fcall.checks) > 2
    /\ ~fcall.checks[1]

\* C22: every call of create_document that returns, returns the path
\* "<title> <date>.docx" of a Word document that was saved and observed to
\* exist, also when the chart image file does not exist.
C22_ReturnsSavedDocumentPath ==
    (fcall.fn = "create_document" /\ fcall.outcome.kind = "return")
        => /\ fcall.outcome.value = PyStr
           /\ \E timestamp \in Timestamps :
                 fcall.path = fcall.arg.title \o " " \o timestamp \o ".docx"
           /\ "saved" \in fcall.effects
           /\ ObservedToExist

\* C23: for every position title and extension, strip_filename applied to
\* the file name save_plot builds returns exactly "<title> <date>".
C23_StripRoundTrip ==
    fcall.fn = "strip_filename"
        => /\ fcall.outcome.kind = "return"
           /\ fcall.name = fcall.title \o <<" ">> \o TimestampText

\* the error validate_workplan raises for the workplan of the position
ValidationOf(position) == hm_validate_workplan(position.breakdown)

FailsValidation(position) ==
    position # PyNone /\ ValidationOf(position).kind = "raise"

\* run_program has called the step function
HasCalled(step) == \E i \in 1..Len(prog.trace) : prog.trace[i].step = step

\* C24: when the position's workplan fails validation, the error of
\* validate_workplan leaves save_plot, generate_plot and run_program as it
\* was raised, and no chart image is written, no chart is published, no
\* document is created and nothing is uploaded.
C24_ValidationErrorReachesTheTop ==
    /\ (fcall.fn \in {"save_plot", "generate_plot"}
            /\ FailsValidation(fcall.arg))
          => /\ fcall.outcome = ValidationOf(fcall.arg)
             /\ fcall.effects = {}
    /\ FailsValidation(prog.position_description)
          => /\ prog.effects = {}
             /\ prog.pc # "done"
             /\ HasCalled("generate_plot")
                   => /\ prog.pc = "raised"
                      /\ prog.exc = ValidationOf(prog.position_description).exc
                      /\ ~HasCalled("create_document")
                      /\ ~HasCalled("send_to_Googledocs")

C24_Witness ==
    /\ prog.which = "position.py"
    /\ prog.pc = "raised"
    /\ FailsValidation(prog.position_description)
    /\ HasCalled("generate_plot")
    /\ prog.exc = "ValuesNotTypeInt"

\* C25: in every run of run_program, whatever the steps return, no step is
\* executed more than once and the progress bar is never advanced beyond
\* its total of five.
C25_NoStepTwice ==
    /\ \A i, j \in 1..Len(prog.trace) :
          i # j => prog.trace[i].step # prog.trace[j].step
    /\ prog.progress <= 5

\* C26: send_to_Googledocs makes a further authentication attempt after each
\* failed one, until one succeeds or three have been made, and none after a
\* successful one.
C26_AuthenticationRetried ==
    gcall.fn = "send_to_Googledocs"
        => /\ gcall.attempts \in 1..3
           /\ \A i \in 1..(gcall.attempts - 1) : ~gcall.login[i]
           /\ gcall.attempts < 3 => gcall.login[gcall.attempts]

=============================================================================
